---- MODULE Spec2Model ----
(***************************************************************************)
(* A model of wasp-core/src/compiler.rs: the single-pass code generator    *)
(* that lowers an application AST into a module for a stack VM.            *)
(*                                                                         *)
(* f64 values are modelled by the integers they hold (every value the      *)
(* model produces is a small integer, exactly representable as f64).       *)
(* An instruction and its immediates are one record [op, arg, by]; `by`    *)
(* names the clause of process_expression that emitted a BR.               *)
(***************************************************************************)
EXTENDS Integers, Sequences, FiniteSets, TLC

VARIABLES ast, symbols, global_names, global_values, local_names,
          heap_position, function_names, function_implementations,
          recur_depth, return_depth, wasm, panic, pc, gi, fi, fj, result,
          vm

vars == <<ast, symbols, global_names, global_values, local_names,
          heap_position, function_names, function_implementations,
          recur_depth, return_depth, wasm, panic, pc, gi, fi, fj, result,
          vm>>

(***************************************************************************)
(* The AST (crate::ast), as records.  An Option is a sequence of length    *)
(* 0 (None) or 1 (Some).  A text is the sequence of its UTF-8 bytes.       *)
(***************************************************************************)
Number(x) == [type |-> "Number", n |-> x]
SymbolLiteral(x) == [type |-> "SymbolLiteral", sym |-> x]
TextLiteral(x) == [type |-> "TextLiteral", text |-> x]
Identifier(x) == [type |-> "Identifier", name |-> x]
FnSig(ins, out) == [type |-> "FnSig", inputs |-> ins, output |-> out]
Assignment(x, e) == [type |-> "Assignment", id |-> x, value |-> e]
FunctionCall(f, ps) == [type |-> "FunctionCall", function_name |-> f, params |-> ps]
IfStatement(c, t, f) == [type |-> "IfStatement", condition |-> c, if_true |-> t, if_false |-> f]
Loop(es) == [type |-> "Loop", expressions |-> es]
Recur == [type |-> "Recur"]

GSymbol(x) == [gtype |-> "Symbol", sym |-> x]
GNumber(x) == [gtype |-> "Number", n |-> x]
GText(x) == [gtype |-> "Text", text |-> x]
GData(vs) == [gtype |-> "Data", values |-> vs]
GStruct(ms) == [gtype |-> "Struct", members |-> ms]
GIdentifier(x) == [gtype |-> "Identifier", name |-> x]

ExternalFunction(nm, ps) == [top |-> "ExternalFunction", name |-> nm, params |-> ps]
DefineGlobal(nm, v) == [top |-> "DefineGlobal", name |-> nm, gvalue |-> v]
DefineFunction(nm, ps, body) ==
    [top |-> "DefineFunction", name |-> nm, exported |-> TRUE, params |-> ps, children |-> body]

IsExternalFunction(x) == x.top = "ExternalFunction"
IsDefineGlobal(x) == x.top = "DefineGlobal"
IsDefineFunction(x) == x.top = "DefineFunction"

(***************************************************************************)
(* f64 and integer arithmetic as the code uses it.                         *)
(***************************************************************************)
\* x / y on f64, kept exact as the fraction <<x, y>>
F64Div(x, y) == <<x, y>>

\* q * m on f64 for a fraction q; the products the code forms are integers
F64MulFrac(q, m) == (q[1] * m) \div q[2]

\* x % y on non-negative f64 that hold integers
F64Rem(x, y) == x % y

I32Max == 2147483647

\* `x as i32`: a saturating cast
AsI32(x) == IF x > I32Max THEN I32Max ELSE IF x < -I32Max - 1 THEN -I32Max - 1 ELSE x

\* the first index of x in the sequence s, 0 when absent (Iterator::position)
RECURSIVE PositionFrom(_, _, _)
PositionFrom(s, x, k) ==
    IF k > Len(s) THEN 0
    ELSE IF s[k] = x THEN k
    ELSE PositionFrom(s, x, k + 1)

Position(s, x) == PositionFrom(s, x, 1)

\* the last index of x in s, 0 when absent (iter().rev().position())
RECURSIVE RPositionFrom(_, _, _)
RPositionFrom(s, x, k) ==
    IF k < 1 THEN 0
    ELSE IF s[k] = x THEN k
    ELSE RPositionFrom(s, x, k - 1)

RPosition(s, x) == RPositionFrom(s, x, Len(s))

(***************************************************************************)
(* The compiler's mutable fields as one record, threaded through the       *)
(* operators that model &mut self methods.                                 *)
(***************************************************************************)
Self ==
    [symbols |-> symbols, global_names |-> global_names,
     global_values |-> global_values, local_names |-> local_names,
     heap_position |-> heap_position, function_names |-> function_names,
     function_implementations |-> function_implementations,
     recur_depth |-> recur_depth, return_depth |-> return_depth,
     wasm |-> wasm, panic |-> panic]

Install(c) ==
    /\ symbols' = c.symbols
    /\ global_names' = c.global_names
    /\ global_values' = c.global_values
    /\ local_names' = c.local_names
    /\ heap_position' = c.heap_position
    /\ function_names' = c.function_names
    /\ function_implementations' = c.function_implementations
    /\ recur_depth' = c.recur_depth
    /\ return_depth' = c.return_depth
    /\ wasm' = c.wasm
    /\ panic' = c.panic

Panic(c, msg) == IF c.panic # "" THEN c ELSE [c EXCEPT !.panic = msg]

\* the value and the state an &mut self method returns
Ret(c, v) == [c |-> c, v |-> v]

(***************************************************************************)
(* Symbol / data pool                                                      *)
(***************************************************************************)
\* the new pool after a miss
InternPush(syms, t) == Append(syms, t)

\* a pool that appends on every call, found or not
get_symbol_value_always_push(c, t) ==
    LET s2 == InternPush(c.symbols, t) IN
    Ret([c EXCEPT !.symbols = s2], Len(s2))

get_symbol_value(c, t) ==
    LET p == Position(c.symbols, t) IN
    IF p # 0
    THEN Ret(c, (p - 1) + 1)
    ELSE LET s2 == InternPush(c.symbols, t) IN
         Ret([c EXCEPT !.symbols = s2], Len(s2))

\* the aligned heap position after a write that ends at final_heap_pos
AlignHeap(final_heap_pos) ==
    IF F64Rem(final_heap_pos, 4) # 0
    THEN F64MulFrac(F64Div(final_heap_pos, 4), 4) + 4
    ELSE final_heap_pos

\* an allocator that aligns the old position and forgets the size written
HeapAfterWriteNoAdvance(pos, size) == AlignHeap(pos)

\* the heap position after size bytes written at heap_position
HeapAfterWrite(pos, size) == AlignHeap(pos + size)

create_data(c, bytes) ==
    LET pos == c.heap_position
        size == Len(bytes)
        seg == [offset |-> AsI32(pos), bytes |-> bytes]
    IN  Ret([c EXCEPT !.wasm.data = Append(@, seg),
                      !.heap_position = HeapAfterWrite(pos, size)],
            pos)

get_or_create_text_data(c, str) == create_data(c, Append(str, 0))

\* the 8 bytes of an f64; only the first carries the modelled value
float_to_bytes(v) == [k \in 1..8 |-> IF k = 1 THEN v ELSE 0]

(***************************************************************************)
(* Scope resolver.  None is [some |-> FALSE]; `oob` marks the lookup       *)
(* global_values[p] of a name already pushed on global_names whose value   *)
(* is not recorded yet: the index is out of bounds and the process panics. *)
(***************************************************************************)
Some(v, k) == [some |-> TRUE, v |-> v, kind |-> k, oob |-> FALSE]
None == [some |-> FALSE, v |-> 0, kind |-> "None", oob |-> FALSE]

\* the built-in constants, looked up first
BuiltIn(id) ==
    IF id = "nil" THEN Some(0, "Global")
    ELSE IF id = "size_num" THEN Some(8, "Global")
    ELSE None

\* a resolver that looks the user globals up before the locals
ResolveGlobalsFirst(c, id) ==
    LET pl == RPosition(c.local_names, id)
        pf == Position(c.function_names, id)
        pg == Position(c.global_names, id)
    IN  IF pg # 0 /\ pg <= Len(c.global_values) THEN Some(c.global_values[pg], "Global")
        ELSE IF pl # 0 THEN Some(pl - 1, "Local")
        ELSE IF pf # 0 THEN Some(pf - 1, "Function")
        ELSE None

\* the lookups that follow the built-ins, in the order of the code
ResolveNamed(c, id) ==
    LET pl == RPosition(c.local_names, id)
        pf == Position(c.function_names, id)
        pg == Position(c.global_names, id)
    IN  IF pl # 0 THEN Some(Len(c.local_names) - 1 - (Len(c.local_names) - pl), "Local")
        ELSE IF pf # 0 THEN Some(pf - 1, "Function")
        ELSE IF pg # 0
             THEN IF pg <= Len(c.global_values)
                  THEN Some(c.global_values[pg], "Global")
                  ELSE [some |-> TRUE, v |-> 0, kind |-> "Global", oob |-> TRUE]
        ELSE None

resolve_identifier(c, id) ==
    IF BuiltIn(id).some THEN BuiltIn(id) ELSE ResolveNamed(c, id)

(***************************************************************************)
(* Global precomputation                                                   *)
(***************************************************************************)
RECURSIVE get_global_value(_, _), GlobalDataBytes(_, _, _, _)

\* the loop of create_global_data: the state and the bytes after entries k..
GlobalDataBytes(c, v, k, bytes) ==
    IF k > Len(v) \/ c.panic # "" THEN Ret(c, bytes)
    ELSE LET r == get_global_value(c, v[k]) IN
         GlobalDataBytes(r.c, v, k + 1, bytes \o float_to_bytes(r.v))

create_global_data(c, v) ==
    LET r == GlobalDataBytes(c, v, 1, <<>>) IN
    IF r.c.panic # "" THEN Ret(r.c, 0) ELSE create_data(r.c, r.v)

get_global_value(c, v) ==
    IF c.panic # "" THEN Ret(c, 0)
    ELSE CASE v.gtype = "Symbol" -> get_symbol_value(c, v.sym)
           [] v.gtype = "Number" -> Ret(c, v.n)
           [] v.gtype = "Text" -> get_or_create_text_data(c, v.text)
           [] v.gtype = "Data" -> create_global_data(c, v.values)
           [] v.gtype = "Struct" ->
                create_global_data(c,
                    [k \in 1..Len(v.members) |-> GSymbol(v.members[k])]
                        \o <<GNumber(0)>>)
           [] v.gtype = "Identifier" ->
                LET r == resolve_identifier(c, v.name) IN
                IF ~r.some THEN Ret(Panic(c, "is not a valid identifier"), 0)
                ELSE IF r.oob THEN Ret(Panic(c, "index out of bounds"), 0)
                ELSE Ret(c, r.v)

(***************************************************************************)
(* Module builder calls                                                    *)
(***************************************************************************)
Ins(op, arg) == [op |-> op, arg |-> arg, by |-> ""]
InsBy(op, arg, by) == [op |-> op, arg |-> arg, by |-> by]

with_instructions(c, i, ins) ==
    IF c.panic # "" THEN c
    ELSE [c EXCEPT !.function_implementations[i].instructions = @ \o ins]

with_local(c, i) ==
    IF c.panic # "" THEN c
    ELSE [c EXCEPT !.function_implementations[i].locals = @ + 1]

\* wasm.add_type: appends the signature, returns its index
add_type(c, sig) ==
    Ret([c EXCEPT !.wasm.types = Append(@, [inputs |-> sig.inputs, output |-> sig.output])],
        Len(c.wasm.types))

(***************************************************************************)
(* Expression lowerer                                                      *)
(***************************************************************************)
Comparisons == {"==", "!=", "<=", ">=", "<", ">"}
Bitwise == {"&", "|", "^", "<<", ">>"}
Arithmetic == {"+", "-", "*", "/", "%"}

ComparisonOp(f) ==
    CASE f = "==" -> "F64_EQ" [] f = "!=" -> "F64_NE" [] f = "<=" -> "F64_LE"
      [] f = ">=" -> "F64_GE" [] f = "<" -> "F64_LT" [] f = ">" -> "F64_GT"

BitwiseOp(f) ==
    CASE f = "&" -> "I64_AND" [] f = "|" -> "I64_OR" [] f = "^" -> "I64_XOR"
      [] f = "<<" -> "I64_SHL" [] f = ">>" -> "I64_SHR_S"

\* the instructions that fold operand p (p # 0) into the running result
ArithmeticFold(f) ==
    CASE f = "+" -> <<Ins("F64_ADD", 0)>>
      [] f = "-" -> <<Ins("F64_SUB", 0)>>
      [] f = "*" -> <<Ins("F64_MUL", 0)>>
      [] f = "/" -> <<Ins("F64_DIV", 0)>>
      [] f = "%" -> <<Ins("I64_REM_S", 0), Ins("F64_CONVERT_S_I64", 0)>>

\* recur_depth on entering an if
IfEnterDepth(rd) == rd + 1

\* recur_depth on entering a loop
LoopEnterDepth(rd) == 0

\* the depth operand of the branch an assert emits
AssertBranchDepth(c) == c.return_depth

\* a recur that always branches to the innermost block
RecurBranchDepthZero(c) == 0

\* the depth operand of the branch a recur emits
RecurBranchDepth(c) == c.recur_depth

\* an assignment that takes the length of local_names after the push
AssignSlotAfterPush(c, id) ==
    LET p == resolve_identifier(c, id)
        names == Append(c.local_names, id)
    IN  IF p.some /\ p.kind = "Local"
        THEN [idx |-> p.v, local_names |-> c.local_names]
        ELSE [idx |-> Len(names), local_names |-> names]

\* an assignment that binds a new slot whatever id resolves to
AssignSlotAlwaysNew(c, id) ==
    [idx |-> Len(c.local_names), local_names |-> Append(c.local_names, id)]

\* the local an assignment to id stores into, and local_names after it
AssignSlot(c, id) ==
    LET p == resolve_identifier(c, id)
        l == Len(c.local_names)
    IN  IF p.some /\ p.kind = "Local"
        THEN [idx |-> p.v, local_names |-> c.local_names]
        ELSE [idx |-> l, local_names |-> Append(c.local_names, id)]

RECURSIVE process_expression(_, _, _), LowerDropping(_, _, _, _),
          LowerEach(_, _, _, _), LowerArithmetic(_, _, _, _)

\* for k in from..len: lower es[k], and DROP unless it is the last
LowerDropping(c, i, es, k) ==
    IF k > Len(es) \/ c.panic # "" THEN c
    ELSE LET c1 == process_expression(c, i, es[k])
             c2 == IF k # Len(es) THEN with_instructions(c1, i, <<Ins("DROP", 0)>>) ELSE c1
         IN  LowerDropping(c2, i, es, k + 1)

\* for k in from..len: lower es[k]
LowerEach(c, i, es, k) ==
    IF k > Len(es) \/ c.panic # "" THEN c
    ELSE LowerEach(process_expression(c, i, es[k]), i, es, k + 1)

\* the operand loop of + - * / %
LowerArithmetic(c, i, x, p) ==
    IF p > Len(x.params) \/ c.panic # "" THEN c
    ELSE LET c1 == process_expression(c, i, x.params[p])
             c2 == IF x.function_name = "%"
                   THEN with_instructions(c1, i, <<Ins("I64_TRUNC_S_F64", 0)>>)
                   ELSE c1
             c3 == IF p # 1
                   THEN with_instructions(c2, i, ArithmeticFold(x.function_name))
                   ELSE c2
         IN  LowerArithmetic(c3, i, x, p + 1)

process_function_call(c, i, x) ==
    LET f == x.function_name
        n == Len(x.params)
        P(cc, k) == process_expression(cc, i, x.params[k])
        E(cc, ins) == with_instructions(cc, i, ins)
        F64_0 == Ins("F64_CONST", 0)
        TRUNC32 == Ins("I32_TRUNC_S_F64", 0)
        TRUNC64 == Ins("I64_TRUNC_S_F64", 0)
    IN
    CASE f = "assert" ->
           IF n = 3
           THEN LET c1 == E(P(P(c, 1), 2), <<Ins("F64_EQ", 0), Ins("IF", 0), F64_0, Ins("ELSE", 0)>>)
                    c2 == P(c1, 3)
                IN  E(c2, <<InsBy("BR", AssertBranchDepth(c2), "assert"), Ins("END", 0)>>)
           ELSE Panic(c, "assert has 3 parameters")
      [] f = "call" ->
           IF n >= 2
           THEN IF x.params[1].type = "FnSig"
                THEN LET sig == x.params[1]
                         c1 == LowerEach(c, i, x.params, 3)
                         c2 == E(P(c1, 2), <<TRUNC32>>)
                         t == add_type(c2, sig)
                         c3 == E(t.c, <<Ins("CALL_INDIRECT", t.v)>>)
                     IN  IF c2.panic # "" THEN c2
                         ELSE IF sig.output = "None" THEN E(c3, <<F64_0>>) ELSE c3
                ELSE Panic(c, "call must begin with a function signature not an expression")
           ELSE Panic(c, "call must have at least function signature and function index")
      [] f = "mem_byte" ->
           IF n = 1
           THEN E(P(c, 1), <<TRUNC32, Ins("I32_LOAD8_U", 0), Ins("F64_CONVERT_S_I32", 0)>>)
           ELSE IF n = 2
           THEN E(P(E(P(c, 1), <<TRUNC32>>), 2), <<TRUNC32, Ins("I32_STORE8", 0), F64_0>>)
           ELSE Panic(c, "invalid number params for mem_byte")
      [] f = "mem_heap_start" ->
           IF n = 0
           THEN E(c, <<Ins("GLOBAL_GET", 0), Ins("F64_CONVERT_S_I32", 0)>>)
           ELSE Panic(c, "invalid number params for mem_heap_start")
      [] f = "mem_heap_end" ->
           IF n = 0
           THEN E(c, <<Ins("GLOBAL_GET", 1), Ins("F64_CONVERT_S_I32", 0)>>)
           ELSE IF n = 1
           THEN E(P(c, 1), <<TRUNC32, Ins("GLOBAL_SET", 1), Ins("I32_CONST", 0)>>)
           ELSE Panic(c, "invalid number params for mem_heap_start")
      [] f = "mem" ->
           IF n = 1
           THEN E(P(c, 1), <<TRUNC32, Ins("F64_LOAD", 0)>>)
           ELSE IF n = 2
           THEN E(P(E(P(c, 1), <<TRUNC32>>), 2), <<Ins("F64_STORE", 0), F64_0>>)
           ELSE Panic(c, "invalid number params for mem")
      [] f \in Comparisons ->
           IF n # 2 THEN Panic(c, "operator expected 2 parameters")
           ELSE E(P(P(c, 1), 2), <<Ins(ComparisonOp(f), 0), Ins("F64_CONVERT_S_I32", 0)>>)
      [] f \in Bitwise ->
           IF n # 2 THEN Panic(c, "operator expected 2 parameters")
           ELSE E(P(E(P(c, 1), <<TRUNC64>>), 2),
                  <<TRUNC64, Ins(BitwiseOp(f), 0), Ins("F64_CONVERT_S_I64", 0)>>)
      [] f \in Arithmetic ->
           IF n < 2 THEN Panic(c, "operator expected at least 2 parameters")
           ELSE LowerArithmetic(c, i, x, 1)
      [] f = "!" ->
           IF n # 1 THEN Panic(c, "operator expected 1 parameters")
           ELSE E(P(c, 1), <<F64_0, Ins("F64_EQ", 0), Ins("F64_CONVERT_S_I32", 0)>>)
      [] f = "~" ->
           IF n # 1 THEN Panic(c, "operator expected 1 parameters")
           ELSE E(P(c, 1), <<TRUNC64, Ins("I64_CONST", -1), Ins("I64_XOR", 0),
                             Ins("F64_CONVERT_S_I64", 0)>>)
      [] f = "and" ->
           IF n # 2 THEN Panic(c, "operator expected 2 parameters")
           ELSE E(P(E(P(c, 1), <<TRUNC64, Ins("I64_CONST", 0), Ins("I64_NE", 0)>>), 2),
                  <<TRUNC64, Ins("I64_CONST", 0), Ins("I64_NE", 0), Ins("I32_AND", 0),
                    Ins("F64_CONVERT_S_I32", 0)>>)
      [] f = "or" ->
           IF n # 2 THEN Panic(c, "operator expected 2 parameters")
           ELSE E(P(E(P(c, 1), <<TRUNC64>>), 2),
                  <<TRUNC64, Ins("I64_OR", 0), Ins("I64_CONST", 0), Ins("I64_NE", 0),
                    Ins("F64_CONVERT_S_I32", 0)>>)
      [] OTHER ->
           LET r == resolve_identifier(c, f) IN
           IF ~r.some THEN Panic(c, "is not a valid function")
           ELSE IF r.oob THEN Panic(c, "index out of bounds")
           ELSE E(LowerEach(c, i, x.params, 1), <<Ins("CALL", AsI32(r.v))>>)

process_expression(c, i, e) ==
    IF c.panic # "" THEN c
    ELSE
    CASE e.type = "SymbolLiteral" ->
           LET r == get_symbol_value(c, e.sym) IN
           with_instructions(r.c, i, <<Ins("F64_CONST", r.v)>>)
      [] e.type = "FnSig" ->
           LET t == add_type(c, e) IN
           with_instructions(t.c, i, <<Ins("F64_CONST", t.v)>>)
      [] e.type = "Loop" ->
           LET c0 == [c EXCEPT !.recur_depth = LoopEnterDepth(@)] IN
           IF e.expressions # <<>>
           THEN LET c1 == with_instructions(c0, i, <<Ins("LOOP", 0)>>)
                    c2 == LowerDropping(c1, i, e.expressions, 1)
                IN  with_instructions(c2, i, <<Ins("END", 0)>>)
           ELSE Panic(c0, "useless infinite loop detected")
      [] e.type = "Recur" ->
           with_instructions(c, i,
               <<Ins("F64_CONST", 0), InsBy("BR", RecurBranchDepth(c), "recur")>>)
      [] e.type = "IfStatement" ->
           LET c0 == [c EXCEPT !.recur_depth = IfEnterDepth(@)]
               c1 == process_expression(c0, i, e.condition)
               c2 == with_instructions(c1, i,
                        <<Ins("F64_CONST", 0), Ins("F64_EQ", 0), Ins("I32_CONST", 0),
                          Ins("I32_EQ", 0), Ins("IF", 0)>>)
               c3 == LowerDropping(c2, i, e.if_true, 1)
               c4 == with_instructions(c3, i, <<Ins("ELSE", 0)>>)
               c5 == IF e.if_false # <<>>
                     THEN LowerDropping(c4, i, e.if_false[1], 1)
                     ELSE with_instructions(c4, i, <<Ins("F64_CONST", 0)>>)
           IN  with_instructions(c5, i, <<Ins("END", 0)>>)
      [] e.type = "Assignment" ->
           LET c1 == with_local(process_expression(c, i, e.value), i)
               a == AssignSlot(c1, e.id)
           IN  IF c1.panic # "" THEN c1
               ELSE with_instructions([c1 EXCEPT !.local_names = a.local_names], i,
                        <<Ins("LOCAL_SET", a.idx), Ins("LOCAL_GET", a.idx)>>)
      [] e.type = "FunctionCall" -> process_function_call(c, i, e)
      [] e.type = "TextLiteral" ->
           LET r == get_or_create_text_data(c, e.text) IN
           with_instructions(r.c, i, <<Ins("F64_CONST", r.v)>>)
      [] e.type = "Identifier" ->
           LET val == resolve_identifier(c, e.name) IN
           IF ~val.some THEN Panic(c, "is not a valid identifier")
           ELSE IF val.oob THEN Panic(c, "index out of bounds")
           ELSE IF val.kind = "Local"
           THEN with_instructions(c, i, <<Ins("LOCAL_GET", AsI32(val.v))>>)
           ELSE with_instructions(c, i, <<Ins("F64_CONST", val.v)>>)
      [] e.type = "Number" ->
           with_instructions(c, i, <<Ins("F64_CONST", e.n)>>)

(***************************************************************************)
(* Compiler driver.  function_defs, the external functions and the global  *)
(* definitions are the filters of ast.children the code takes.             *)
(***************************************************************************)
function_defs == SelectSeq(ast.children, IsDefineFunction)
import_defs == SelectSeq(ast.children, IsExternalFunction)
global_defs == SelectSeq(ast.children, IsDefineGlobal)

NewWasm(imports) ==
    [imports |-> imports, types |-> <<>>, data |-> <<>>, globals |-> <<>>,
     table |-> <<>>, functions |-> <<>>, elements |-> <<>>]

\* Compiler::new and initialize, for the application app
New(app) ==
    LET defs == SelectSeq(app.children, IsExternalFunction) IN
    /\ ast = app
    /\ symbols = <<>>
    /\ global_names = <<>>
    /\ global_values = <<>>
    /\ local_names = <<>>
    /\ heap_position = 4
    /\ function_names = [k \in 1..Len(defs) |-> defs[k].name]
    /\ function_implementations = <<>>
    /\ recur_depth = 0
    /\ return_depth = 1
    /\ wasm = NewWasm([k \in 1..Len(defs) |->
                          [name |-> defs[k].name, inputs |-> Len(defs[k].params)]])
    /\ panic = ""
    /\ pc = "pre_process_functions"
    /\ gi = 1
    /\ fi = 1
    /\ fj = 0
    /\ result = "none"

Running == panic = "" /\ result = "none"

PreProcessFunctions ==
    /\ Running /\ pc = "pre_process_functions"
    /\ function_names' =
          function_names \o [k \in 1..Len(function_defs) |-> function_defs[k].name]
    /\ function_implementations' =
          [k \in 1..Len(function_defs) |->
              [name |-> function_defs[k].name,
               inputs |-> Len(function_defs[k].params),
               locals |-> 0,
               instructions |-> <<>>]]
    /\ wasm' = [wasm EXCEPT !.table = <<Len(function_names'), Len(function_names')>>]
    /\ pc' = "process_globals"
    /\ UNCHANGED <<ast, symbols, global_names, global_values, local_names,
                   heap_position, recur_depth, return_depth, panic, gi, fi, fj,
                   result, vm>>

\* an iteration that reserves the value slot, as 0, before it evaluates the
\* initializer
process_global_reserving(c, def) ==
    LET k == Len(c.global_values) + 1
        c1 == [c EXCEPT !.global_names = Append(@, def.name),
                        !.global_values = Append(@, 0)]
        r == get_global_value(c1, def.gvalue)
    IN  IF r.c.panic # "" THEN r.c
        ELSE [r.c EXCEPT !.global_values[k] = r.v]

\* one iteration of the loop of process_globals
process_global(c, def) ==
    LET c1 == [c EXCEPT !.global_names = Append(@, def.name)]
        r == get_global_value(c1, def.gvalue)
    IN  IF r.c.panic # "" THEN r.c
        ELSE [r.c EXCEPT !.global_values = Append(@, r.v)]

ProcessGlobal ==
    /\ Running /\ pc = "process_globals" /\ gi <= Len(global_defs)
    /\ Install(process_global(Self, global_defs[gi]))
    /\ gi' = gi + 1
    /\ UNCHANGED <<ast, pc, fi, fj, result, vm>>

\* process_globals returns; process_functions starts
ProcessGlobalsDone ==
    /\ Running /\ pc = "process_globals" /\ gi > Len(global_defs)
    /\ pc' = "process_functions"
    /\ UNCHANGED <<ast, symbols, global_names, global_values, local_names,
                   heap_position, function_names, function_implementations,
                   recur_depth, return_depth, wasm, panic, gi, fi, fj, result, vm>>

\* the head of iteration i of process_functions
EnterFunction ==
    /\ Running /\ pc = "process_functions" /\ fi <= Len(function_defs) /\ fj = 0
    /\ local_names' = function_defs[fi].params
    /\ fj' = 1
    /\ UNCHANGED <<ast, symbols, global_names, global_values, heap_position,
                   function_names, function_implementations, recur_depth,
                   return_depth, wasm, panic, pc, gi, fi, result, vm>>

\* iteration j of the body loop: lower the child, DROP unless it is the last
process_child(c, i, children, j) ==
    LET c1 == process_expression(c, i, children[j]) IN
    IF j # Len(children) THEN with_instructions(c1, i, <<Ins("DROP", 0)>>) ELSE c1

ProcessFunctionChild ==
    /\ Running /\ pc = "process_functions" /\ fi <= Len(function_defs)
    /\ fj >= 1 /\ fj <= Len(function_defs[fi].children)
    /\ Install(process_child(Self, fi, function_defs[fi].children, fj))
    /\ fj' = fj + 1
    /\ UNCHANGED <<ast, pc, gi, fi, result, vm>>

EndFunction ==
    /\ Running /\ pc = "process_functions" /\ fi <= Len(function_defs)
    /\ fj > Len(function_defs[fi].children)
    /\ Install(with_instructions(Self, fi, <<Ins("END", 0)>>))
    /\ fi' = fi + 1
    /\ fj' = 0
    /\ UNCHANGED <<ast, pc, gi, result, vm>>

\* the tail of process_functions: the functions and the element section
AddFunctions ==
    /\ Running /\ pc = "process_functions" /\ fi > Len(function_defs)
    /\ wasm' = [wasm EXCEPT !.functions = @ \o function_implementations,
                            !.elements = [k \in 1..Len(function_names) |-> k - 1]]
    /\ function_implementations' = <<>>
    /\ pc' = "set_heap_start"
    /\ UNCHANGED <<ast, symbols, global_names, global_values, local_names,
                   heap_position, function_names, recur_depth, return_depth,
                   panic, gi, fi, fj, result, vm>>

\* the value set_heap_start publishes in globals 0 and 1
FinalHeapPos(hp) == AsI32(AlignHeap(hp))

SetHeapStart ==
    /\ Running /\ pc = "set_heap_start"
    /\ wasm' = [wasm EXCEPT !.globals =
                   @ \o <<[value |-> FinalHeapPos(heap_position), mutable |-> FALSE],
                          [value |-> FinalHeapPos(heap_position), mutable |-> TRUE]>>]
    /\ pc' = "complete"
    /\ UNCHANGED <<ast, symbols, global_names, global_values, local_names,
                   heap_position, function_names, function_implementations,
                   recur_depth, return_depth, panic, gi, fi, fj, result, vm>>

\* compile returns Ok(bytes)
Complete ==
    /\ Running /\ pc = "complete"
    /\ result' = "Ok"
    /\ pc' = "done"
    /\ UNCHANGED <<ast, symbols, global_names, global_values, local_names,
                   heap_position, function_names, function_implementations,
                   recur_depth, return_depth, wasm, panic, gi, fi, fj, vm>>

\* a panic!/expect leaves compile by unwinding: nothing in compile catches it
Unwind ==
    /\ panic # "" /\ result = "none"
    /\ result' = "Unwound"
    /\ pc' = "done"
    /\ UNCHANGED <<ast, symbols, global_names, global_values, local_names,
                   heap_position, function_names, function_implementations,
                   recur_depth, return_depth, wasm, panic, gi, fi, fj, vm>>

(***************************************************************************)
(* The applications compile is run on                                      *)
(***************************************************************************)
MaxTextLen == 3
MaxGlobals == 2
MaxArity == 3

\* a text of n bytes
Text(n) == [k \in 1..n |-> 97]

Ones(n) == [k \in 1..n |-> Number(1)]

SeqsUpTo(S, n) == UNION {[1..k -> S] : k \in 0..n}

GlobalNames == <<"g", "h", "k", "m">>

GlobalValues ==
    {GSymbol("a"), GSymbol("b"), GNumber(7)}
    \cup {GText(Text(n)) : n \in 0..MaxTextLen}
    \cup {GData(<<>>), GData(<<GNumber(1), GSymbol("a")>>), GData(<<GIdentifier("g")>>),
          GData(<<GNumber(1), GIdentifier("h")>>),
          GData(<<GText(Text(1)), GData(<<GNumber(2)>>)>>),
          GStruct(<<>>), GStruct(<<"a", "b">>), GStruct(<<"b", "b">>)}
    \cup {GIdentifier(x) : x \in {"g", "h", "main", "nil", "size_num", "u"}}

Unit == SymbolLiteral("a")

IntrinsicNames ==
    {"assert", "call", "mem_byte", "mem_heap_start", "mem_heap_end", "mem",
     "!", "~", "and", "or"} \cup Comparisons \cup Bitwise \cup Arithmetic

UserNames == {"main", "ext", "g", "p", "u", "nil"}

Atoms ==
    {Number(1), Recur, SymbolLiteral("a"), SymbolLiteral("b"), TextLiteral(Text(2)),
     FnSig(1, "F64")}
    \cup {Identifier(x) : x \in {"p", "g", "u", "nil", "size_num", "main", "ext"}}

Small == {Number(1), Identifier("p"), Recur}

Calls ==
    {FunctionCall(f, Ones(n)) : f \in IntrinsicNames \cup UserNames, n \in 0..MaxArity}
    \cup {FunctionCall("call", <<FnSig(n, o), Number(0)>> \o Ones(n)) :
              n \in 0..2, o \in {"F64", "None"}}
    \cup {FunctionCall("assert", <<Number(1), Identifier("p"), x>>) : x \in Small}
    \cup {FunctionCall("+", <<Identifier("p"), TextLiteral(Text(n))>>) : n \in 0..MaxTextLen}

Assignments ==
    {Assignment(x, v) : x \in {"p", "g", "x", "nil", "main"},
                        v \in {Number(1), Identifier("p")}}

Ifs(C, T) ==
    {IfStatement(c, t, f) : c \in C,
         t \in {<<>>} \cup {<<x>> : x \in T},
         f \in {<<>>, <<<<>>>>} \cup {<<<<x>>>> : x \in T}}

Loops(T) == {Loop(es) : es \in SeqsUpTo(T, 2)}

Depth1 == Atoms \cup Calls \cup Assignments \cup Ifs(Small, Small) \cup Loops(Small)

\* the constructs that nest inside if, loop and assert at depth 2
Nested ==
    {IfStatement(Number(1), <<Number(1)>>, <<>>),
     IfStatement(Number(1), <<Recur>>, <<>>),
     IfStatement(Recur, <<Number(1)>>, <<>>),
     IfStatement(Number(1), <<Number(1)>>, <<<<Number(1), Recur>>>>),
     FunctionCall("assert", <<Identifier("p"), Number(1), Number(42)>>),
     FunctionCall("assert", <<Identifier("p"), Number(1), Recur>>),
     Loop(<<Recur>>), Loop(<<Number(1)>>),
     Assignment("x", Number(1)), Identifier("x"), Recur}

Depth2 ==
    Ifs({Number(1)}, Nested) \cup Ifs(Nested, {Number(1)}) \cup Loops(Nested)
    \cup {FunctionCall("assert", <<Number(1), Number(2), x>>) : x \in Nested}
    \cup {FunctionCall("assert", <<x, Number(2), Number(3)>>) : x \in Nested}
    \cup {Assignment(x, FunctionCall("+", <<Identifier(x), Number(1)>>)) : x \in {"p", "g", "x"}}
    \cup {Assignment(x, Assignment(y, Identifier("p"))) : x, y \in {"p", "x", "y"}}

Expressions == Depth1 \cup Depth2

\* function bodies: any one expression, pairs and triples of the nesting ones
Bodies ==
    {<<>>} \cup {<<e>> : e \in Expressions}
    \cup {<<a, b>> : a \in Nested \cup Assignments,
                      b \in Nested \cup {Identifier(x) : x \in {"g", "p", "nil", "main"}}}
    \cup {<<SymbolLiteral(x), SymbolLiteral(y)>> : x, y \in {"a", "b", "c"}}
    \cup {<<a, b, Number(99)>> : a, b \in {IfStatement(Number(1), <<Number(1)>>, <<>>),
                                           IfStatement(Number(1), <<Recur>>, <<>>),
                                           FunctionCall("assert", <<Identifier("p"), Number(1), Number(42)>>),
                                           Assignment("p", Number(1))}}

\* the declarations around the function under study
Contexts ==
    {<<ExternalFunction("ext", <<"a">>), DefineGlobal("g", GNumber(7))>>,
     <<DefineGlobal("g", GSymbol("b")), DefineGlobal("nil", GText(Text(2)))>>}

App(children) == [children |-> children]

FunctionApps ==
    {App(ctx \o <<DefineFunction("main", <<"p">>, body)>>) : ctx \in Contexts, body \in Bodies}

\* two functions: the second is lowered with the counters the first left
TwoFunctionApps ==
    {App(<<DefineFunction("main", <<"p">>, <<a>>), DefineFunction("ext", <<"p", "q">>, <<b, Identifier("q")>>)>>) :
        a \in Nested, b \in Nested}

GlobalApps ==
    {App([k \in 1..Len(gs) |-> DefineGlobal(GlobalNames[k], gs[k])]
         \o <<DefineFunction("main", <<>>, <<Identifier("g")>>)>>) :
        gs \in SeqsUpTo(GlobalValues, MaxGlobals)}

\* a parameter that carries the name of a global
ParamShadowApps ==
    {App(<<DefineGlobal("g", GNumber(7)),
           DefineFunction("main", <<"g", "p">>, <<a, Identifier(x)>>)>>) :
        a \in Assignments, x \in {"g", "p"}}

\* two globals of one name, and a global that carries the name of a function
NameClashApps ==
    {App(<<DefineGlobal(ns[1], a), DefineGlobal(ns[2], b),
           DefineFunction("main", <<>>, <<Identifier("g")>>)>>) :
        ns \in {<<"g", "g">>, <<"main", "g">>}, a, b \in GlobalValues}

Apps ==
    FunctionApps \cup TwoFunctionApps \cup ParamShadowApps \cup GlobalApps
    \cup NameClashApps

VmOff == [status |-> "off"]

Init == \E app \in Apps : New(app) /\ vm = VmOff

Next ==
    \/ PreProcessFunctions
    \/ ProcessGlobal
    \/ ProcessGlobalsDone
    \/ EnterFunction
    \/ ProcessFunctionChild
    \/ EndFunction
    \/ AddFunctions
    \/ SetHeapStart
    \/ Complete
    \/ Unwind

Spec == Init /\ [][Next]_vars

(***************************************************************************)
(* The structured-control rules of the VM, read off an instruction stream. *)
(* The enclosing blocks of an instruction are a sequence, innermost last;  *)
(* the first is the implicit function block.  BR d names the block d       *)
(* places in from the innermost.                                           *)
(***************************************************************************)
RECURSIVE BlocksFrom(_, _, _, _)
BlocksFrom(ins, j, k, st) ==
    IF j >= k THEN st
    ELSE LET op == ins[j].op IN
         BlocksFrom(ins, j + 1, k,
             IF op \in {"LOOP", "IF"} THEN Append(st, op)
             ELSE IF op = "END" /\ st # <<>> THEN SubSeq(st, 1, Len(st) - 1)
             ELSE st)

\* the blocks that enclose instruction k
EnclosingBlocks(ins, k) == BlocksFrom(ins, 1, k, <<"FUNC">>)

\* the block BR d at instruction k lands on, "NONE" when d is out of range
BranchTarget(ins, k) ==
    LET st == EnclosingBlocks(ins, k)
        d == ins[k].arg
    IN  IF d < Len(st) THEN st[Len(st) - d] ELSE "NONE"

\* the index in the enclosing blocks of the innermost loop, 0 when none
InnermostLoop(st) == RPosition(st, "LOOP")

\* every block closed once, and the last END closes the function block
Balanced(ins) ==
    /\ ins # <<>>
    /\ \A k \in 1..Len(ins) : EnclosingBlocks(ins, k) # <<>>
    /\ BlocksFrom(ins, 1, Len(ins) + 1, <<"FUNC">>) = <<>>

(***************************************************************************)
(* The operand-stack typing of the VM.  A state is the operand stack, the  *)
(* control frames [kind, height, unr] and whether typing has failed.       *)
(***************************************************************************)
TypeInit == [ok |-> TRUE, stack |-> <<>>,
             ctrl |-> <<[kind |-> "FUNC", height |-> 0, unr |-> FALSE]>>]

TypeFail(v) == [v EXCEPT !.ok = FALSE]

TypePush(v, t) == IF v.ok THEN [v EXCEPT !.stack = Append(@, t)] ELSE v

TypePop(v, t) ==
    IF ~v.ok \/ v.ctrl = <<>> THEN TypeFail(v)
    ELSE LET f == v.ctrl[Len(v.ctrl)] IN
         IF Len(v.stack) = f.height
         THEN IF f.unr THEN v ELSE TypeFail(v)
         ELSE IF t = "ANY" \/ v.stack[Len(v.stack)] = t
              THEN [v EXCEPT !.stack = SubSeq(@, 1, Len(@) - 1)]
              ELSE TypeFail(v)

\* pops ts, the last of ts first
RECURSIVE TypePopAll(_, _)
TypePopAll(v, ts) ==
    IF ts = <<>> THEN v
    ELSE TypePopAll(TypePop(v, ts[Len(ts)]), SubSeq(ts, 1, Len(ts) - 1))

RECURSIVE TypePushAll(_, _)
TypePushAll(v, ts) ==
    IF ts = <<>> THEN v ELSE TypePushAll(TypePush(v, ts[1]), Tail(ts))

F64s(n) == [k \in 1..n |-> "F64"]

\* the operands an instruction takes and leaves
OpType(in, env) ==
    LET op == in.op
        T(a, b) == [ok |-> TRUE, pops |-> a, pushes |-> b]
    IN
    CASE op = "F64_CONST" -> T(<<>>, <<"F64">>)
      [] op = "I32_CONST" -> T(<<>>, <<"I32">>)
      [] op = "I64_CONST" -> T(<<>>, <<"I64">>)
      [] op \in {"F64_EQ", "F64_NE", "F64_LE", "F64_GE", "F64_LT", "F64_GT"} ->
            T(<<"F64", "F64">>, <<"I32">>)
      [] op \in {"F64_ADD", "F64_SUB", "F64_MUL", "F64_DIV"} -> T(<<"F64", "F64">>, <<"F64">>)
      [] op \in {"I32_EQ", "I32_AND"} -> T(<<"I32", "I32">>, <<"I32">>)
      [] op = "I64_NE" -> T(<<"I64", "I64">>, <<"I32">>)
      [] op \in {"I64_AND", "I64_OR", "I64_XOR", "I64_SHL", "I64_SHR_S", "I64_REM_S"} ->
            T(<<"I64", "I64">>, <<"I64">>)
      [] op = "I32_TRUNC_S_F64" -> T(<<"F64">>, <<"I32">>)
      [] op = "I64_TRUNC_S_F64" -> T(<<"F64">>, <<"I64">>)
      [] op = "F64_CONVERT_S_I32" -> T(<<"I32">>, <<"F64">>)
      [] op = "F64_CONVERT_S_I64" -> T(<<"I64">>, <<"F64">>)
      [] op = "I32_LOAD8_U" -> T(<<"I32">>, <<"I32">>)
      [] op = "F64_LOAD" -> T(<<"I32">>, <<"F64">>)
      [] op = "I32_STORE8" -> T(<<"I32", "I32">>, <<>>)
      [] op = "F64_STORE" -> T(<<"I32", "F64">>, <<>>)
      [] op = "GLOBAL_GET" -> T(<<>>, <<"I32">>)
      [] op = "GLOBAL_SET" -> T(<<"I32">>, <<>>)
      [] op = "LOCAL_GET" -> T(<<>>, <<"F64">>)
      [] op = "LOCAL_SET" -> T(<<"F64">>, <<>>)
      [] op = "DROP" -> T(<<"ANY">>, <<>>)
      [] op = "CALL" ->
            IF in.arg >= 0 /\ in.arg < Len(env.arities)
            THEN T(F64s(env.arities[in.arg + 1]), <<"F64">>)
            ELSE [ok |-> FALSE, pops |-> <<>>, pushes |-> <<>>]
      [] op = "CALL_INDIRECT" ->
            IF in.arg >= 0 /\ in.arg < Len(env.types)
            THEN T(F64s(env.types[in.arg + 1].inputs) \o <<"I32">>,
                   IF env.types[in.arg + 1].output = "None" THEN <<>> ELSE <<"F64">>)
            ELSE [ok |-> FALSE, pops |-> <<>>, pushes |-> <<>>]

\* the values a branch to a frame carries
LabelTypes(kind) == IF kind = "LOOP" THEN <<>> ELSE <<"F64">>

\* a block ends holding exactly its one f64 result
TypeCloseFrame(v) ==
    LET w == TypePop(v, "F64") IN
    IF w.ok /\ Len(w.stack) = w.ctrl[Len(w.ctrl)].height THEN w ELSE TypeFail(w)

TypeStep(v, in, env) ==
    IF ~v.ok \/ v.ctrl = <<>> THEN TypeFail(v)
    ELSE LET n == Len(v.ctrl) IN
    CASE in.op = "LOOP" ->
           [v EXCEPT !.ctrl = Append(@, [kind |-> "LOOP", height |-> Len(v.stack), unr |-> FALSE])]
      [] in.op = "IF" ->
           LET w == TypePop(v, "I32") IN
           [w EXCEPT !.ctrl = Append(@, [kind |-> "IF", height |-> Len(w.stack), unr |-> FALSE])]
      [] in.op = "ELSE" ->
           LET w == TypeCloseFrame(v) IN
           IF w.ok /\ w.ctrl[n].kind = "IF"
           THEN [w EXCEPT !.ctrl[n].unr = FALSE, !.ctrl[n].kind = "ELSE"]
           ELSE TypeFail(w)
      [] in.op = "END" ->
           LET w == TypeCloseFrame(v) IN
           IF w.ok
           THEN TypePush([w EXCEPT !.ctrl = SubSeq(@, 1, n - 1)], "F64")
           ELSE w
      [] in.op = "BR" ->
           LET target == IF in.arg < n THEN v.ctrl[n - in.arg].kind ELSE "FUNC"
               w == TypePopAll(v, LabelTypes(target))
           IN  IF w.ok
               THEN [w EXCEPT !.stack = SubSeq(@, 1, w.ctrl[n].height), !.ctrl[n].unr = TRUE]
               ELSE w
      [] OTHER ->
           LET t == OpType(in, env) IN
           IF t.ok THEN TypePushAll(TypePopAll(v, t.pops), t.pushes) ELSE TypeFail(v)

RECURSIVE TypeFrom(_, _, _, _)
TypeFrom(v, ins, k, env) ==
    IF k > Len(ins) THEN v ELSE TypeFrom(TypeStep(v, ins[k], env), ins, k + 1, env)

\* the typing state after the whole stream
TypeOf(ins, env) == TypeFrom(TypeInit, ins, 1, env)

\* the signatures the stream of a function is typed against
TypeEnv ==
    [arities |-> [k \in 1..Len(wasm.imports) |-> wasm.imports[k].inputs]
                 \o [k \in 1..Len(function_defs) |-> Len(function_defs[k].params)],
     types |-> wasm.types]

\* typing has not failed and the operand stack holds exactly ts
LeavesExactly(v, ts) ==
    LET w == TypePopAll(v, ts) IN
    v.ok /\ v.ctrl # <<>> /\ w.ok /\ Len(w.stack) = 0

(***************************************************************************)
(* The VM running one function of the compiled module: the operand stack,  *)
(* the locals, and the frames of the blocks entered, innermost last.       *)
(* Values are the integers the f64, i32 and i64 operands hold.             *)
(***************************************************************************)
\* the index of the END (or, with else_too, the ELSE) that closes the block
\* whose body starts at k
RECURSIVE MatchFrom(_, _, _, _)
MatchFrom(code, k, depth, else_too) ==
    IF k > Len(code) THEN 0
    ELSE LET op == code[k].op IN
         IF op \in {"LOOP", "IF"} THEN MatchFrom(code, k + 1, depth + 1, else_too)
         ELSE IF op = "END"
              THEN IF depth = 0 THEN k ELSE MatchFrom(code, k + 1, depth - 1, else_too)
         ELSE IF op = "ELSE" /\ depth = 0 /\ else_too THEN k
         ELSE MatchFrom(code, k + 1, depth, else_too)

MatchEnd(code, k) == MatchFrom(code, k, 0, FALSE)
MatchElse(code, k) == MatchFrom(code, k, 0, TRUE)

VmStartState(f, args) ==
    [status |-> "running", args |-> args, code |-> f.instructions, ip |-> 1, stack |-> <<>>,
     locals |-> args \o [k \in 1..f.locals |-> 0],
     frames |-> <<[kind |-> "FUNC", start |-> 0, end |-> Len(f.instructions), height |-> 0]>>,
     result |-> 0]

Top(st) == st[Len(st)]
Pop1(st) == SubSeq(st, 1, Len(st) - 1)
Pop2(st) == SubSeq(st, 1, Len(st) - 2)
Bool(b) == IF b THEN 1 ELSE 0

\* the function returns the value on top of the stack
VmReturn(m) == [m EXCEPT !.status = "done", !.result = Top(m.stack)]

\* leave the innermost frame through its END with the block's result
VmLeave(m, fr, n) ==
    IF fr.kind = "FUNC" THEN VmReturn(m)
    ELSE [m EXCEPT !.ip = fr.end + 1,
                   !.frames = SubSeq(@, 1, n - 1),
                   !.stack = Append(SubSeq(@, 1, fr.height), Top(m.stack))]

VmBranch(m, d) ==
    LET n == Len(m.frames) IN
    IF d >= n THEN [m EXCEPT !.status = "trap"]
    ELSE LET fr == m.frames[n - d] IN
         IF fr.kind = "LOOP"
         THEN [m EXCEPT !.ip = fr.start + 1,
                        !.frames = SubSeq(@, 1, n - d),
                        !.stack = SubSeq(@, 1, fr.height)]
         ELSE VmLeave(m, fr, n - d)

VmBinary(op, a, b) ==
    CASE op = "F64_EQ" -> Bool(a = b)
      [] op = "F64_NE" -> Bool(a # b)
      [] op = "F64_LE" -> Bool(a <= b)
      [] op = "F64_GE" -> Bool(a >= b)
      [] op = "F64_LT" -> Bool(a < b)
      [] op = "F64_GT" -> Bool(a > b)
      [] op = "I32_EQ" -> Bool(a = b)
      [] op = "F64_ADD" -> a + b
      [] op = "F64_SUB" -> a - b
      [] op = "F64_MUL" -> a * b

VmBinaryOps ==
    {"F64_EQ", "F64_NE", "F64_LE", "F64_GE", "F64_LT", "F64_GT", "I32_EQ",
     "F64_ADD", "F64_SUB", "F64_MUL"}

VmExec(m) ==
    LET in == m.code[m.ip]
        op == in.op
        n == Len(m.frames)
        next == [m EXCEPT !.ip = @ + 1]
    IN
    CASE op \in {"F64_CONST", "I32_CONST", "I64_CONST"} ->
           [next EXCEPT !.stack = Append(@, in.arg)]
      [] op \in VmBinaryOps ->
           [next EXCEPT !.stack =
               Append(Pop2(@), VmBinary(op, m.stack[Len(m.stack) - 1], Top(m.stack)))]
      [] op \in {"F64_CONVERT_S_I32", "F64_CONVERT_S_I64", "I32_TRUNC_S_F64", "I64_TRUNC_S_F64"} ->
           next
      [] op = "LOCAL_GET" -> [next EXCEPT !.stack = Append(@, m.locals[in.arg + 1])]
      [] op = "LOCAL_SET" ->
           [next EXCEPT !.stack = Pop1(@), !.locals[in.arg + 1] = Top(m.stack)]
      [] op = "DROP" -> [next EXCEPT !.stack = Pop1(@)]
      [] op = "LOOP" ->
           [next EXCEPT !.frames = Append(@,
               [kind |-> "LOOP", start |-> m.ip, end |-> MatchEnd(m.code, m.ip + 1),
                height |-> Len(m.stack)])]
      [] op = "IF" ->
           LET fr == [kind |-> "IF", start |-> m.ip, end |-> MatchEnd(m.code, m.ip + 1),
                      height |-> Len(m.stack) - 1]
           IN  [m EXCEPT !.stack = Pop1(@),
                         !.frames = Append(@, fr),
                         !.ip = IF Top(m.stack) # 0 THEN m.ip + 1
                                ELSE MatchElse(m.code, m.ip + 1) + 1,
                         !.status = IF Top(m.stack) = 0
                                       /\ m.code[MatchElse(m.code, m.ip + 1)].op # "ELSE"
                                    THEN "trap" ELSE @]
      [] op \in {"ELSE", "END"} -> VmLeave(m, m.frames[n], n)
      [] op = "BR" -> VmBranch(m, in.arg)
      [] OTHER -> [m EXCEPT !.status = "unsupported"]

(***************************************************************************)
(* Running the compiled countdown function                                 *)
(***************************************************************************)
MaxN == 4

CountdownBody ==
    <<Loop(<<IfStatement(
                FunctionCall("==", <<Identifier("n"), Number(0)>>),
                <<Identifier("n")>>,
                <<<<Assignment("n", FunctionCall("-", <<Identifier("n"), Number(1)>>)),
                    Recur>>>>)>>)>>

CountdownApp == App(<<DefineFunction("countdown", <<"n">>, CountdownBody)>>)

InitRun == New(CountdownApp) /\ vm = VmOff

\* the host calls the exported function with the argument n
VmStart ==
    /\ pc = "done" /\ result = "Ok" /\ vm.status = "off"
    /\ \E n \in 0..MaxN : vm' = VmStartState(wasm.functions[1], <<n>>)
    /\ UNCHANGED <<ast, symbols, global_names, global_values, local_names,
                   heap_position, function_names, function_implementations,
                   recur_depth, return_depth, wasm, panic, pc, gi, fi, fj, result>>

VmStep ==
    /\ vm.status = "running"
    /\ vm' = VmExec(vm)
    /\ UNCHANGED <<ast, symbols, global_names, global_values, local_names,
                   heap_position, function_names, function_implementations,
                   recur_depth, return_depth, wasm, panic, pc, gi, fi, fj, result>>

NextRun ==
    \/ PreProcessFunctions
    \/ ProcessGlobalsDone
    \/ EnterFunction
    \/ ProcessFunctionChild
    \/ EndFunction
    \/ AddFunctions
    \/ SetHeapStart
    \/ Complete
    \/ VmStart
    \/ VmStep

\* a started VM keeps executing: it is sequential and waits on nothing
SpecRun == InitRun /\ [][NextRun]_vars /\ WF_vars(VmStep)

(***************************************************************************)
(* What the claims read off a state                                        *)
(***************************************************************************)
\* the function bodies process_functions has closed
FinishedFunctions ==
    IF pc = "process_functions"
    THEN SubSeq(function_implementations, 1, fi - 1)
    ELSE wasm.functions

\* the function being lowered has had at least one child lowered
LoweringChildren ==
    /\ panic = "" /\ pc = "process_functions"
    /\ fi <= Len(function_defs) /\ fj >= 2

CurrentInstructions == function_implementations[fi].instructions

BranchesOf(ins, by) == {k \in 1..Len(ins) : ins[k].op = "BR" /\ ins[k].by = by}

\* C1: after each expression lowered without a fatal error the operand stack
\* holds exactly one more value, an f64 (the body loop then drops it unless it
\* is the last)
C1_ExpressionLeavesOneF64 ==
    LoweringChildren =>
        LeavesExactly(TypeOf(CurrentInstructions, TypeEnv),
                      IF fj > Len(function_defs[fi].children) THEN <<"F64">> ELSE <<>>)

\* C2: every closed function body is balanced, and no BR has a depth operand
\* greater than the number of blocks around it, the function block included
C2_StructurallyValid ==
    \A k \in 1..Len(FinishedFunctions) :
        LET ins == FinishedFunctions[k].instructions IN
        /\ Balanced(ins)
        /\ \A b \in BranchesOf(ins, "assert") \cup BranchesOf(ins, "recur") :
              ins[b].arg <= Len(EnclosingBlocks(ins, b))

\* C3: heap_position is a multiple of 4 after any sequence of allocations
C3_HeapAligned == heap_position % 4 = 0

SegmentEnd(seg) == seg.offset + Len(seg.bytes)

\* C4: no segment at an address below 4, no two non-empty segments overlap,
\* and every segment ends at or below the heap start published in globals 0, 1
C4_SegmentsDisjointBelowHeap ==
    /\ \A k \in 1..Len(wasm.data) : wasm.data[k].offset >= 4
    /\ \A j, k \in 1..Len(wasm.data) :
          (j < k /\ wasm.data[j].bytes # <<>> /\ wasm.data[k].bytes # <<>>)
              => (SegmentEnd(wasm.data[j]) <= wasm.data[k].offset
                  \/ SegmentEnd(wasm.data[k]) <= wasm.data[j].offset)
    /\ \A g \in 1..Len(wasm.globals) : \A k \in 1..Len(wasm.data) :
          SegmentEnd(wasm.data[k]) <= wasm.globals[g].value

\* a compilation ended with three segments, one of a misaligned length, and the
\* heap start published
C4_Witness ==
    /\ result = "Ok" /\ Len(wasm.globals) = 2 /\ Len(wasm.data) >= 3
    /\ \E k \in 1..Len(wasm.data) : Len(wasm.data[k].bytes) % 4 = 3

Range(f) == {f[k] : k \in DOMAIN f}

\* every function body, open or closed
Functions == function_implementations \o wasm.functions

\* the non-empty segment recorded at address a
SegmentAt(a) == CHOOSE seg \in Range(wasm.data) : seg.offset = a /\ seg.bytes # <<>>

\* the <<name, tag>> pairs the module shows: symbol globals, the entries of
\* struct and data globals, and the constants pushed for symbol literals in
\* bodies made of symbol literals only
SymbolTags ==
    LET n == Len(global_values)
        OfGlobal(k) ==
            LET v == global_defs[k].gvalue IN
            CASE v.gtype = "Symbol" -> {<<v.sym, global_values[k]>>}
              [] v.gtype = "Struct" ->
                   {<<v.members[j], SegmentAt(global_values[k]).bytes[8 * (j - 1) + 1]>> :
                       j \in 1..Len(v.members)}
              [] v.gtype = "Data" ->
                   {<<v.values[j].sym, SegmentAt(global_values[k]).bytes[8 * (j - 1) + 1]>> :
                       j \in {j \in 1..Len(v.values) : v.values[j].gtype = "Symbol"}}
              [] OTHER -> {}
        OfFunction(k) ==
            LET ch == function_defs[k].children
                ins == Functions[k].instructions
            IN  IF \A j \in 1..Len(ch) : ch[j].type = "SymbolLiteral"
                THEN {<<ch[j].sym, ins[2 * j - 1].arg>> :
                         j \in {j \in 1..Len(ch) : 2 * j - 1 <= Len(ins)}}
                ELSE {}
    IN  UNION {OfGlobal(k) : k \in 1..n} \cup UNION {OfFunction(k) : k \in 1..Len(Functions)}

\* C5: a tag is the pool index of its name plus 1: one tag per name, one name
\* per tag, no name twice in the pool, no tag 0
C5_SymbolTags ==
    /\ \A j, k \in 1..Len(symbols) : j # k => symbols[j] # symbols[k]
    /\ \A t \in SymbolTags : t[2] # 0 /\ t[2] = Position(symbols, t[1])
    /\ \A t, u \in SymbolTags : (t[1] = u[1]) <=> (t[2] = u[2])

\* a name interned by a global initializer and again by a symbol literal, next
\* to a second name
C5_Witness ==
    /\ result = "Ok" /\ Len(symbols) = 2
    /\ \E k \in 1..Len(global_defs) : global_defs[k].gvalue = GSymbol("b")
    /\ \E k \in 1..Len(function_defs) :
          function_defs[k].children = <<SymbolLiteral("a"), SymbolLiteral("b")>>

\* C6: the branch of every assert lands on the function block, so that the
\* function returns the third argument
C6_AssertBranchesToFunction ==
    \A k \in 1..Len(FinishedFunctions) :
        LET ins == FinishedFunctions[k].instructions IN
        \A b \in BranchesOf(ins, "assert") : BranchTarget(ins, b) = "FUNC"

\* C7: the branch of every recur inside a loop has as depth the number of
\* blocks between it and its innermost loop, and so lands on that loop
C7_RecurBranchesToLoopHead ==
    \A k \in 1..Len(FinishedFunctions) :
        LET ins == FinishedFunctions[k].instructions IN
        \A b \in BranchesOf(ins, "recur") :
            LET st == EnclosingBlocks(ins, b) IN
            InnermostLoop(st) # 0 => ins[b].arg = Len(st) - InnermostLoop(st)

\* C8: compile hands every diagnosable problem to its caller as an Error
\* value: it never leaves by unwinding
C8_ReturnsError == panic # "" => result \in {"none", "Err"}

\* the names assigned in the function being lowered
LoweringFunction ==
    panic = "" /\ pc = "process_functions" /\ fi <= Len(function_defs) /\ fj >= 1

\* the last two children lowered are `x := e` and `x`, and the instruction
\* lowered for `x` reads the slot the assignment stored into
ReadsAssignedSlot(x) ==
    LET ch == function_defs[fi].children
        ins == CurrentInstructions
        ref == Len(ins) - (IF fj <= Len(ch) THEN 1 ELSE 0)
    IN  (fj >= 3 /\ ch[fj - 2].type = "Assignment" /\ ch[fj - 2].id = x
            /\ ch[fj - 1] = Identifier(x))
        => /\ ins[ref - 3].op = "LOCAL_SET"
           /\ ins[ref] = Ins("LOCAL_GET", ins[ref - 3].arg)

\* once x is assigned, x resolves to the local slot last bound to it
ResolvesToLocal(x) ==
    (\E k \in Len(function_defs[fi].params) + 1..Len(local_names) : local_names[k] = x)
        => resolve_identifier(Self, x) = Some(RPosition(local_names, x) - 1, "Local")

ShadowedBy(x) == ResolvesToLocal(x) /\ ReadsAssignedSlot(x)

\* C9 as stated: every name of a user global or a function that is assigned in
\* the function resolves, from then on, to the slot the assignment wrote
C9_AssignedGlobalResolvesToLocal ==
    LoweringFunction =>
        \A x \in Range(global_names) \cup Range(function_names) : ShadowedBy(x)

\* C9 amended: the same for every such name other than the built-in constants
\* nil and size_num, which resolve first; and a name that is no built-in and
\* no local resolves to a function before a global
C9_Amended ==
    LoweringFunction =>
        /\ \A x \in (Range(global_names) \cup Range(function_names)) \ {"nil", "size_num"} :
              ShadowedBy(x)
        /\ \A x \in {"nil", "size_num"} : resolve_identifier(Self, x).kind = "Global"
        /\ \A x \in Range(function_names) \ (Range(local_names) \cup {"nil", "size_num"}) :
              resolve_identifier(Self, x) = Some(Position(function_names, x) - 1, "Function")

\* `g := 1` then `g`, with g a user global, were lowered
C9_Witness ==
    /\ LoweringFunction /\ fj = 3
    /\ function_defs[fi].children = <<Assignment("g", Number(1)), Identifier("g")>>
    /\ "g" \in Range(global_names)
    /\ resolve_identifier(Self, "g").kind = "Local"

\* C10: every run of the compiled countdown(n), n >= 0, ends, returning 0 with
\* the parameter's slot counted down to 0
C10_CountdownReturnsZero ==
    (vm.status = "running")
        ~> (vm.status = "done" /\ vm.result = 0 /\ vm.locals[1] = 0)

\* countdown(MaxN) returned after the loop went round MaxN times
C10_Witness ==
    /\ vm.status = "done" /\ vm.args = <<MaxN>> /\ MaxN > 0
    /\ vm.result = 0 /\ vm.locals[1] = 0

\* the step of process_functions that lowers child fj, an assignment, without
\* a fatal error
AssignmentStep ==
    /\ panic = "" /\ pc = "process_functions" /\ fi <= Len(function_defs)
    /\ fj >= 1 /\ fj <= Len(function_defs[fi].children)
    /\ function_defs[fi].children[fj].type = "Assignment"
    /\ fj' = fj + 1 /\ panic' = ""

\* the instruction pair LOCAL_SET, LOCAL_GET at the end of what a child
\* lowered to (before the DROP of a child that is not the last)
StorePairEnd(ins, j, n) == Len(ins) - (IF j < n THEN 1 ELSE 0)

\* the slot the assignment just lowered stores into
StoredSlot(ins, j, n) == ins[StorePairEnd(ins, j, n) - 1].arg

IsStorePair(ins, j, n) ==
    LET t == StorePairEnd(ins, j, n) IN
    /\ t >= 2
    /\ ins[t - 1].op = "LOCAL_SET" /\ ins[t].op = "LOCAL_GET"
    /\ ins[t - 1].arg = ins[t].arg

\* C11 as stated: every assignment appends one entry to local_names and stores
\* into the slot of that entry, which no parameter or earlier assignment uses
C11_AssignmentAlwaysNewSlot ==
    [][AssignmentStep =>
          LET id == function_defs[fi].children[fj].id
              n == Len(function_defs[fi].children)
              ins == function_implementations'[fi].instructions
          IN  /\ local_names' = Append(local_names, id)
              /\ IsStorePair(ins, fj, n)
              /\ StoredSlot(ins, fj, n) = Len(local_names)]_vars

\* C11 amended: every assignment declares one local; once its value is
\* lowered, an assignment to a name that does not resolve to a local appends
\* the name and stores into the new slot, and an assignment to a name that
\* resolves to a local leaves local_names as it is and stores into the slot the
\* name already has; a later reference to a name other than nil and size_num
\* reads the slot stored into
C11_Amended ==
    [][AssignmentStep =>
          LET id == function_defs[fi].children[fj].id
              n == Len(function_defs[fi].children)
              ins == function_implementations'[fi].instructions
              mid == process_expression(Self, fi, function_defs[fi].children[fj].value)
              was == resolve_identifier(mid, id)
              slot == StoredSlot(ins, fj, n)
          IN  /\ IsStorePair(ins, fj, n)
              /\ function_implementations'[fi].locals
                    = mid.function_implementations[fi].locals + 1
              /\ IF was.some /\ was.kind = "Local"
                 THEN local_names' = mid.local_names /\ slot = was.v
                 ELSE /\ local_names' = Append(mid.local_names, id)
                      /\ slot = Len(mid.local_names)
              /\ id \notin {"nil", "size_num"}
                    => RPosition(local_names', id) - 1 = slot]_vars

\* `x := 1` was lowered twice in one body: the second stored into the slot of
\* the first, and two locals are declared for the one name
C11_Witness ==
    /\ LoweringFunction /\ fj = 3
    /\ function_defs[fi].children = <<Assignment("x", Number(1)), Assignment("x", Number(1))>>
    /\ local_names = <<"p", "x">>
    /\ function_implementations[fi].locals = 2
    /\ IsStorePair(CurrentInstructions, 2, 2)
    /\ StoredSlot(CurrentInstructions, 2, 2) = 1

\* the last child lowered, and the instructions it lowered to
LastChild == function_defs[fi].children[fj - 1]

\* the index of the last instruction the last child lowered to
LastChildEnd ==
    Len(CurrentInstructions) - (IF fj - 1 < Len(function_defs[fi].children) THEN 1 ELSE 0)

\* the last child lowered is a call of a name that is no intrinsic
UserCallLowered ==
    /\ LoweringChildren
    /\ LastChild.type = "FunctionCall"
    /\ LastChild.function_name \notin IntrinsicNames

\* C12: a call of a non-intrinsic name that is lowered without a fatal error
\* names a declared function, and ends in CALL with the index of the name in
\* function_names, after one constant per parameter
C12_CallNamesDeclaredFunction ==
    UserCallLowered =>
        LET f == LastChild.function_name
            n == Len(LastChild.params)
            ins == CurrentInstructions
            t == LastChildEnd
        IN  /\ f \in Range(function_names)
            /\ ins[t] = Ins("CALL", Position(function_names, f) - 1)
            /\ \A k \in 1..n : ins[t - k] = Ins("F64_CONST", 1)

\* the names a global initializer refers to, directly or inside a Data array
RECURSIVE IdRefs(_)
IdRefs(v) ==
    CASE v.gtype = "Identifier" -> {v.name}
      [] v.gtype = "Data" -> UNION {IdRefs(v.values[j]) : j \in 1..Len(v.values)}
      [] OTHER -> {}

\* the names of the globals declared strictly before global k
DeclaredBefore(k) == {global_defs[j].name : j \in 1..(k - 1)}

\* the initializer of global k refers to a name that is no built-in, no
\* function and no global declared strictly earlier
RefersForward(k) ==
    \E x \in IdRefs(global_defs[k].gvalue) :
        /\ ~BuiltIn(x).some
        /\ x \notin Range(function_names)
        /\ x \notin DeclaredBefore(k)

\* what an initializer of global k that names x may observe: the built-in, the
\* function handle, or the value recorded for the first global named x, which
\* is declared strictly before k
Observes(k, x, val) ==
    \/ BuiltIn(x).some /\ val = BuiltIn(x).v
    \/ ~BuiltIn(x).some /\ x \in Range(function_names)
          /\ val = Position(function_names, x) - 1
    \/ /\ ~BuiltIn(x).some /\ x \notin Range(function_names)
       /\ x \in DeclaredBefore(k)
       /\ Position(global_names, x) < k
       /\ global_defs[Position(global_names, x)].name = x
       /\ val = global_values[Position(global_names, x)]

\* the value recorded for global k is one its initializer may observe
RecordedFromEarlier(k) ==
    LET v == global_defs[k].gvalue IN
    CASE v.gtype = "Identifier" -> Observes(k, v.name, global_values[k])
      [] v.gtype = "Data" ->
           \A j \in 1..Len(v.values) :
               v.values[j].gtype = "Identifier" =>
                   Observes(k, v.values[j].name,
                            SegmentAt(global_values[k]).bytes[8 * (j - 1) + 1])
      [] OTHER -> TRUE

\* C13: the globals are recorded in declaration order, name k with value k; an
\* initializer observes only built-ins, function handles and the values of
\* globals declared strictly earlier; process_globals aborts exactly when an
\* initializer refers to its own global or to a later one
C13_GlobalsInDeclarationOrder ==
    /\ Len(global_values) <= Len(global_names)
    /\ \A k \in 1..Len(global_names) : global_names[k] = global_defs[k].name
    /\ panic = "" => Len(global_values) = Len(global_names)
    /\ pc = "process_globals" =>
          /\ Len(global_names) = gi - 1
          /\ (panic # "") = (\E k \in 1..(gi - 1) : RefersForward(k))
          /\ panic # "" => Len(global_values) = gi - 2 /\ RefersForward(gi - 1)
    /\ \A k \in 1..Len(global_values) : RecordedFromEarlier(k)
    /\ (result = "Ok" /\ global_names # <<>> /\ function_defs[1].children = <<Identifier("g")>>
           /\ "g" \in Range(global_names) /\ "g" \notin Range(function_names)) =>
          wasm.functions[1].instructions[1]
              = Ins("F64_CONST", global_values[Position(global_names, "g")])

\* g was recorded, and the next global, whose Data initializer names itself,
\* aborted the compilation before its value was recorded
C13_Witness ==
    /\ pc = "process_globals" /\ panic # ""
    /\ Len(global_defs) = 2
    /\ global_defs[1].gvalue = GNumber(7)
    /\ global_defs[2] = DefineGlobal("h", GData(<<GNumber(1), GIdentifier("h")>>))
    /\ global_names = <<"g", "h">> /\ global_values = <<7>>

\* the operand types on the stack when instruction k of ins is reached
StackBefore(ins, k) == TypeOf(SubSeq(ins, 1, k - 1), TypeEnv).stack

\* the last child lowered is a call of % with at least 2 operands
RemCallLowered ==
    /\ LoweringChildren
    /\ LastChild.type = "FunctionCall" /\ LastChild.function_name = "%"
    /\ Len(LastChild.params) >= 2

\* C14: in what a call of % with n >= 2 operands lowers to, every I64_REM_S
\* finds two i64 on top of the stack, and the call leaves exactly one f64
C14_RemainderTypeConsistent ==
    RemCallLowered =>
        LET ins == SubSeq(CurrentInstructions, 1, LastChildEnd) IN
        /\ \A k \in 1..Len(ins) :
              ins[k].op = "I64_REM_S" =>
                  LET st == StackBefore(ins, k) IN
                  /\ Len(st) >= 2
                  /\ st[Len(st)] = "I64" /\ st[Len(st) - 1] = "I64"
        /\ LET v == TypeOf(ins, TypeEnv) IN
           v.ok /\ v.stack = <<"F64">>

\* the last child lowered is a call of mem_heap_end with one argument
HeapEndStoreLowered ==
    /\ LoweringChildren
    /\ LastChild.type = "FunctionCall" /\ LastChild.function_name = "mem_heap_end"
    /\ Len(LastChild.params) = 1

\* C15: what mem_heap_end with one argument lowers to truncates the argument,
\* sets global 1, and then leaves exactly one f64, the constant 0.0
C15_HeapEndStoreLeavesF64 ==
    HeapEndStoreLowered =>
        LET ins == SubSeq(CurrentInstructions, 1, LastChildEnd)
            n == Len(ins)
            v == TypeOf(ins, TypeEnv)
        IN  /\ n >= 4
            /\ ins[n - 2] = Ins("I32_TRUNC_S_F64", 0)
            /\ ins[n - 1] = Ins("GLOBAL_SET", 1)
            /\ ins[n] = Ins("F64_CONST", 0)
            /\ v.ok /\ v.stack = <<"F64">>

\* the number of locals declared when instruction k of ins is emitted: every
\* with_local is followed by the LOCAL_SET of its assignment
DeclaredAt(ins, k) == Cardinality({j \in 1..k : ins[j].op = "LOCAL_SET"})

\* the function local_names belongs to: the one being lowered, or the one
\* just closed
LocalsOwner == IF fj >= 1 THEN fi ELSE fi - 1

\* C16: every index of a LOCAL_GET or LOCAL_SET is below the number of
\* parameters plus the locals declared when it is emitted, every with_local is
\* matched by a store, and local_names is never longer than the parameters plus
\* the declared locals of its function
C16_LocalIndicesDeclared ==
    panic = "" =>
        /\ \A f \in 1..Len(Functions) :
              LET ins == Functions[f].instructions IN
              /\ Functions[f].locals = DeclaredAt(ins, Len(ins))
              /\ \A k \in 1..Len(ins) :
                    ins[k].op \in {"LOCAL_GET", "LOCAL_SET"} =>
                        /\ ins[k].arg >= 0
                        /\ ins[k].arg < Functions[f].inputs + DeclaredAt(ins, k)
        /\ (LocalsOwner >= 1 /\ LocalsOwner <= Len(Functions)) =>
              Len(local_names)
                  <= Functions[LocalsOwner].inputs + Functions[LocalsOwner].locals

\* `p := 1` was lowered twice for the parameter p: two locals are declared,
\* local_names still holds the one name, and both stores go to slot 0
C16_Witness ==
    /\ LoweringFunction /\ fj = 3
    /\ function_defs[fi].params = <<"p">>
    /\ SubSeq(function_defs[fi].children, 1, 2)
          = <<Assignment("p", Number(1)), Assignment("p", Number(1))>>
    /\ local_names = <<"p">>
    /\ function_implementations[fi].locals = 2
    /\ \A k \in 1..Len(CurrentInstructions) :
          CurrentInstructions[k].op \in {"LOCAL_GET", "LOCAL_SET"}
              => CurrentInstructions[k].arg = 0

====
